---- MODULE Spec2Model ----
(***************************************************************************)
(* Model of the notification subsystem of cushion-desktop (src-tauri):     *)
(* the cross-platform NotificationManager (notifications/mod.rs), its      *)
(* macOS / Windows / Linux backends, the default click dispatcher, and the *)
(* notification commands built on the notification plugin                  *)
(* (commands/notification.rs).                                             *)
(*                                                                         *)
(* Rust Strings are TLA+ strings; Option<T> is a sequence of length <= 1   *)
(* (None == <<>>, Some(x) == <<x>>).                                       *)
(***************************************************************************)
EXTENDS Integers, Sequences, FiniteSets, TLC

None == <<>>
Some(x) == <<x>>
IsSome(o) == Len(o) = 1
Unwrap(o) == o[1]

(***************************************************************************)
(* String operations of the Rust standard library used by the code.        *)
(***************************************************************************)
CharAt(s, i) == SubSeq(s, i, i)

StartsWith(s, p) == Len(s) >= Len(p) /\ SubSeq(s, 1, Len(p)) = p

EndsWith(s, p) == Len(s) >= Len(p) /\ SubSeq(s, Len(s) - Len(p) + 1, Len(s)) = p

\* str::replace: every non-overlapping occurrence of `from`, left to right
RECURSIVE Replace(_, _, _)
Replace(s, from, to) ==
    IF Len(s) = 0 THEN ""
    ELSE IF StartsWith(s, from) THEN to \o Replace(SubSeq(s, Len(from) + 1, Len(s)), from, to)
    ELSE CharAt(s, 1) \o Replace(SubSeq(s, 2, Len(s)), from, to)

\* str::trim_start_matches(c): drop every leading c
RECURSIVE TrimStartMatches(_, _)
TrimStartMatches(s, c) ==
    IF StartsWith(s, c) THEN TrimStartMatches(SubSeq(s, Len(c) + 1, Len(s)), c) ELSE s

\* first index >= i of a character of s that is in set cs, or Len(s) + 1
RECURSIVE IndexOfAny(_, _, _)
IndexOfAny(s, cs, i) ==
    IF i > Len(s) THEN Len(s) + 1
    ELSE IF CharAt(s, i) \in cs THEN i
    ELSE IndexOfAny(s, cs, i + 1)

\* last index of a character of s that is in set cs, or 0
RECURSIVE LastIndexOfAny(_, _, _)
LastIndexOfAny(s, cs, i) ==
    IF i < 1 THEN 0
    ELSE IF CharAt(s, i) \in cs THEN i
    ELSE LastIndexOfAny(s, cs, i - 1)

LowerChars == <<"a","b","c","d","e","f","g","h","i","j","k","l","m",
                "n","o","p","q","r","s","t","u","v","w","x","y","z">>
UpperChars == <<"A","B","C","D","E","F","G","H","I","J","K","L","M",
                "N","O","P","Q","R","S","T","U","V","W","X","Y","Z">>
Letters == {LowerChars[i] : i \in 1..26} \cup {UpperChars[i] : i \in 1..26}
Digits == {"0","1","2","3","4","5","6","7","8","9"}

LowerChar(c) ==
    IF \E i \in 1..26 : UpperChars[i] = c
    THEN LowerChars[CHOOSE i \in 1..26 : UpperChars[i] = c]
    ELSE c

RECURSIVE ToLower(_)
ToLower(s) == IF Len(s) = 0 THEN "" ELSE LowerChar(CharAt(s, 1)) \o ToLower(SubSeq(s, 2, Len(s)))

RECURSIVE AllIn(_, _)
AllIn(s, cs) == Len(s) = 0 \/ (CharAt(s, 1) \in cs /\ AllIn(SubSeq(s, 2, Len(s)), cs))

(***************************************************************************)
(* url::Url::parse, as far as is_valid_notification_url reads its result:  *)
(* the scheme ([A-Za-z][A-Za-z0-9+.-]* before the first ':', lower-cased)  *)
(* and host_str().  For the special scheme https the authority runs from   *)
(* after the leading slashes to the first '/', '?', '#' or '\'; userinfo   *)
(* up to the last '@' and a port after ':' are not part of the host; an    *)
(* empty host is a parse error.  For a non-special scheme only the scheme  *)
(* is read by the caller.                                                  *)
(***************************************************************************)
SchemeEnd(s) == IndexOfAny(s, {":"}, 1)

ParseError == [ok |-> FALSE, scheme |-> "", host |-> None]

UrlParse(s) ==
    LET e == SchemeEnd(s)
        sch == SubSeq(s, 1, e - 1)
    IN  IF e > Len(s) \/ e = 1 \/ CharAt(s, 1) \notin Letters
           \/ ~AllIn(sch, Letters \cup Digits \cup {"+", ".", "-"})
        THEN ParseError
        ELSE IF ToLower(sch) # "https"
        THEN [ok |-> TRUE, scheme |-> ToLower(sch), host |-> None]
        ELSE LET rest == TrimStartMatches(TrimStartMatches(SubSeq(s, e + 1, Len(s)), "/"), "\\")
                 aEnd == IndexOfAny(rest, {"/", "?", "#", "\\"}, 1)
                 auth == SubSeq(rest, 1, aEnd - 1)
                 at   == LastIndexOfAny(auth, {"@"}, Len(auth))
                 hp   == SubSeq(auth, at + 1, Len(auth))
                 col  == IndexOfAny(hp, {":"}, 1)
                 h    == ToLower(SubSeq(hp, 1, col - 1))
             IN  IF Len(h) = 0 THEN ParseError
                 ELSE [ok |-> TRUE, scheme |-> "https", host |-> Some(h)]

\* a variant that compares the host by its ending alone, without the leading dot
IsValidByHostEnding(url) ==
    LET parsed == UrlParse(url)
    IN  IF ~parsed.ok THEN FALSE
        ELSE IF parsed.scheme = "cushion" \/ parsed.scheme = "cushion-dev" THEN TRUE
        ELSE IF parsed.scheme = "https" /\ IsSome(parsed.host)
        THEN EndsWith(Unwrap(parsed.host), "cushion.so")
        ELSE FALSE

\* notifications/mod.rs: is_valid_notification_url
is_valid_notification_url(url) ==
    LET parsed == UrlParse(url)
    IN  IF ~parsed.ok THEN FALSE
        ELSE IF parsed.scheme = "cushion" \/ parsed.scheme = "cushion-dev" THEN TRUE
        ELSE IF parsed.scheme = "https" /\ IsSome(parsed.host)
        THEN Unwrap(parsed.host) = "app.cushion.so" \/ EndsWith(Unwrap(parsed.host), ".cushion.so")
        ELSE FALSE

(***************************************************************************)
(* NotificationClick / ClickAction (notifications/mod.rs)                  *)
(***************************************************************************)
Body == [kind |-> "Body", name |-> ""]
Dismiss == [kind |-> "Dismiss", name |-> ""]
Button(x) == [kind |-> "Button", name |-> x]

NotificationClick(id, url, action) == [id |-> id, url |-> url, action |-> action]

(***************************************************************************)
(* Effects on the GUI host: an emitted event or an operation on a window.  *)
(***************************************************************************)
Emit(event, payload) == [op |-> "emit", event |-> event, payload |-> payload]
WindowOp(name) == [op |-> name, event |-> "", payload |-> ""]

\* lib.rs builds the window labelled "main" before notifications::setup runs, and a
\* close request hides it instead of destroying it: get_webview_window("main") is Some.
MainWindow == Some("main")

FocusWindow ==
    IF IsSome(MainWindow)
    THEN <<WindowOp("show"), WindowOp("set_focus"), WindowOp("unminimize")>>
    ELSE <<>>

DeepLinks(effects) ==
    {i \in 1..Len(effects) : effects[i].op = "emit" /\ effects[i].event = "deep-link"}

\* a variant that does not look at the action of the click
DefaultCallbackAnyAction(click) ==
    (IF IsSome(click.url) /\ is_valid_notification_url(Unwrap(click.url))
     THEN <<Emit("deep-link", Unwrap(click.url))>>
     ELSE <<>>) \o FocusWindow

\* a variant that does nothing for a click without a url
DefaultCallbackNeedsUrl(click) ==
    IF click.action.kind \in {"Body", "Button"} /\ IsSome(click.url)
    THEN (IF is_valid_notification_url(Unwrap(click.url))
          THEN <<Emit("deep-link", Unwrap(click.url))>>
          ELSE <<>>) \o FocusWindow
    ELSE <<>>

\* a variant that brings the window to the foreground first and emits afterwards
DefaultCallbackFocusFirst(click) ==
    IF click.action.kind \in {"Body", "Button"}
    THEN FocusWindow \o (IF IsSome(click.url) /\ is_valid_notification_url(Unwrap(click.url))
                         THEN <<Emit("deep-link", Unwrap(click.url))>>
                         ELSE <<>>)
    ELSE <<>>

\* notifications/mod.rs: the closure setup() registers with set_callback
DefaultCallback(click) ==
    IF click.action.kind \in {"Body", "Button"}
    THEN (IF IsSome(click.url) /\ is_valid_notification_url(Unwrap(click.url))
          THEN <<Emit("deep-link", Unwrap(click.url))>>
          ELSE <<>>) \o FocusWindow
    ELSE <<>>

(***************************************************************************)
(* Bounds and input sets                                                   *)
(***************************************************************************)
MaxRendered == 2

\* the execution contexts that share the manager (spec section 5): the threads of
\* the async command handlers, which show notifications, and the OS-managed thread
\* the native click callbacks arrive on; any of them may call set_callback
AppThreads == {"app"}
OsThreads == {"os"}
Threads == AppThreads \cup OsThreads
NoThread == "none"
Platforms == {"macos", "windows", "linux"}
Ids == {"n1", "n2"}
Urls == {"cushion://x", "https://evil.com/y"}
UrlOpts == {None} \cup {Some(u) : u \in Urls}

\* the callbacks a client may register: the default dispatcher and two plain
\* callbacks; and callbacks that call back into the manager from inside the callback
Callbacks == {"default", "A", "B"}
ReentrantCallbacks == {"reGet", "reShow", "reSet", "reClick"}
\* and a callback whose body panics
PanickingCallbacks == {"panics"}

MacDefaultAction == "com.apple.UNNotificationDefaultActionIdentifier"
MacDismissAction == "com.apple.UNNotificationDismissActionIdentifier"
MacActionIdentifiers == {MacDefaultAction, MacDismissAction, "reply"}

VARIABLES
    platform,     \* the build target: which backend is compiled in
    callback,     \* NotificationManager.callback: Option of the registered callback
    cbLock,       \* the thread holding the callback mutex, or NoThread
    cbPoisoned,   \* the callback mutex is poisoned (a holder panicked)
    metadata,     \* NotificationManager.metadata: the HashMap id -> url
    rendered,     \* notifications handed to the OS: [id, url] as passed to the backend
    frame,        \* per thread: the call it is in and its arguments
    hostLog,      \* the effects the manager's callback has had on the GUI host
                  \* (events emitted, window operations)
    lastSet,      \* history: the argument of the last set_callback that returned
    didReplace,   \* history: that set_callback replaced another registered callback
    replaced      \* history: the entries [id, url] recorded once and since replaced by
                  \* a store of another url under the same id

VARIABLES
    NOTIFICATION_URLS,  \* commands/notification.rs: the global HashMap id -> url
    now,                \* chrono::Utc::now().timestamp_millis()
    delivered,          \* identifiers of the notifications the plugin has shown
    onActionLast        \* the last run of the on_action handler: [id, url, effects]

VARIABLES
    dClick,       \* the click handed to the default dispatcher
    dEffects,     \* what the dispatcher did with it, in order
    dState        \* "delivered" before the dispatcher ran, "returned" after

VARIABLES
    managerCell,  \* mod.rs NOTIFICATION_MANAGER: the OnceLock, None or Some(instance)
    macManager,   \* macos.rs NOTIFICATION_MANAGER: the static mut Option read by the delegate
    delegateClass,\* the Objective-C class CushionNotificationDelegate is registered
    managers,     \* the number of NotificationManager instances constructed so far
    toastManager, \* Windows: per shown toast id, the manager its closure captured
    lcLast        \* the last call on the manager's life cycle and what it returned

mgrVars == <<platform, callback, cbLock, cbPoisoned, metadata, rendered, frame, hostLog,
             lastSet, didReplace, replaced>>
cmdVars == <<NOTIFICATION_URLS, now, delivered, onActionLast>>
dispVars == <<dClick, dEffects, dState>>
lcVars == <<managerCell, macManager, delegateClass, managers, toastManager, lcLast>>

\* notification permission (notifications/macos.rs, commands/notification.rs)
VARIABLES
    permPc,       \* where request_notification_permission is: idle, waitRequest, waitStatus, done
    permWaited,   \* seconds the current recv_timeout has waited
    permChan,     \* what the completion handler has sent into the channel being waited on
    permGot,      \* what the wait on the authorization request received
    permStatusGot,\* what the wait on the settings query received
    permResult,   \* what request_notification_permission returned
    checkLast     \* the last call of check_notification_permission

permVars == <<permPc, permWaited, permChan, permGot, permStatusGot, permResult, checkLast>>

\* the pending-update hand-off (lib.rs, updater/mod.rs)
VARIABLES
    pendingUpdate,  \* PendingUpdate(Mutex<Option<String>>)
    checker,        \* the background task of setup_auto_update_check
    focus,          \* the Focused(true) arm of handle_window_event
    checks,         \* calls of check_for_update_silent made
    stores,         \* versions written into the pending slot
    dialogs,        \* calls of show_update_dialog made by focus events
    focusEvents,    \* Focused(true) events handled or being handled
    lastFocus       \* the last Focused(true) event handled

updVars == <<pendingUpdate, checker, focus, checks, stores, dialogs, focusEvents, lastFocus>>

\* get_unique_download_path (commands/download.rs)
VARIABLES
    dlPc,        \* idle, loop, done
    dlFilename,  \* the argument filename
    dlDownloads, \* dirs::download_dir()
    dlFiles,     \* which candidates exist in the Downloads folder
    counter,     \* the local counter
    dlResult     \* what the function returned

dlVars == <<dlPc, dlFilename, dlDownloads, dlFiles, counter, dlResult>>

extVars == <<permVars, updVars, dlVars>>

vars == <<mgrVars, cmdVars, dispVars, lcVars, extVars>>

IdleFrame ==
    [pc |-> "idle", op |-> "none", id |-> "", url |-> None, action |-> Body,
     ran |-> <<>>]

SetFrame(t, f) == frame' = [frame EXCEPT ![t] = f]

\* a variant that finds no entry
NoMetadata(id) == None

\* NotificationManager::get_metadata
get_metadata(id) == IF id \in DOMAIN metadata THEN Some(metadata[id]) ELSE None

\* a variant that keeps the new entry alone
StoreAlone(md, id, url) == [k \in {id} |-> url]

\* a variant that writes the url under every key
StoreEverywhere(md, id, url) == [k \in DOMAIN md \cup {id} |-> url]

\* NotificationManager::store_metadata: HashMap::insert
store_metadata(md, id, url) == [k \in DOMAIN md \cup {id} |-> IF k = id THEN url ELSE md[k]]

\* a thread that calls lock().unwrap() on the poisoned callback mutex panics
Panicked(t, f) == SetFrame(t, [f EXCEPT !.pc = "panicked"])

NoOnAction == [id |-> "", url |-> None, effects |-> <<>>, again |-> FALSE]

CmdIdle ==
    /\ NOTIFICATION_URLS = << >>
    /\ now = 0
    /\ delivered = {}
    /\ onActionLast = NoOnAction

DispIdle ==
    /\ dClick = NotificationClick("", None, Body)
    /\ dEffects = <<>>
    /\ dState = "none"

NoCall == [op |-> "none", id |-> "", url |-> None, native |-> 0, failed |-> FALSE, result |-> "",
           manager |-> None, toast |-> None]

\* Result<String, String>
Ok(v) == [ok |-> TRUE, value |-> v]
Err(e) == [ok |-> FALSE, value |-> e]

NoCheck == [called |-> FALSE, failed |-> FALSE, result |-> Ok("")]

\* no permission request or check has been made
PermIdle ==
    /\ permPc = "idle"
    /\ permWaited = 0
    /\ permChan = None
    /\ permGot = None
    /\ permStatusGot = None
    /\ permResult = None
    /\ checkLast = NoCheck

CheckerAsleep == [pc |-> "sleep", version |-> ""]
FocusIdle == [pc |-> "idle", pending |-> None]
NoFocus == [had |-> FALSE, dialog |-> FALSE, stores |-> 0]

\* .manage(PendingUpdate(Mutex::new(None))); the background task has not checked yet
UpdIdle ==
    /\ pendingUpdate = None
    /\ checker = CheckerAsleep
    /\ focus = FocusIdle
    /\ checks = 0
    /\ stores = 0
    /\ dialogs = 0
    /\ focusEvents = 0
    /\ lastFocus = NoFocus

NoFiles == [leading |-> 0, others |-> {}]

\* get_unique_download_path has not been called
DlIdle ==
    /\ dlPc = "idle"
    /\ dlFilename = ""
    /\ dlDownloads = None
    /\ dlFiles = NoFiles
    /\ counter = 0
    /\ dlResult = None

ExtIdle == PermIdle /\ UpdIdle /\ DlIdle

\* the statics after NotificationManager::init has run once, on platform p
InitializedOnce(p) ==
    /\ managerCell = Some(1)
    /\ macManager = IF p = "macos" THEN Some(1) ELSE None
    /\ delegateClass = (p = "macos")
    /\ managers = 1
    /\ toastManager = {}
    /\ lcLast = NoCall

\* NotificationManager::init
Init ==
    /\ ExtIdle
    /\ CmdIdle
    /\ DispIdle
    /\ platform \in Platforms
    /\ InitializedOnce(platform)
    /\ callback = None
    /\ cbLock = NoThread
    /\ cbPoisoned = FALSE
    /\ metadata = << >>
    /\ rendered = {}
    /\ frame = [t \in Threads |-> IdleFrame]
    /\ hostLog = {}
    /\ lastSet = None
    /\ didReplace = FALSE
    /\ replaced = {}

(***************************************************************************)
(* NotificationManager::set_callback                                        *)
(***************************************************************************)
\* a variant that keeps a callback already registered
SetSlotKeepFirst(slot, cb) == IF IsSome(slot) THEN slot ELSE Some(cb)

\* *cb = Some(Box::new(callback)): the slot holds the new callback only
SetSlot(slot, cb) == Some(cb)

SetCallback(t, cb) ==
    /\ frame[t].pc = "idle"
    /\ cbLock = NoThread
    /\ IF cbPoisoned
       THEN /\ Panicked(t, [IdleFrame EXCEPT !.op = "set_callback"])
            /\ UNCHANGED <<callback, lastSet, didReplace>>
       ELSE /\ callback' = SetSlot(callback, cb)
            /\ lastSet' = Some(cb)
            /\ didReplace' = (IsSome(callback) /\ callback # Some(cb))
            /\ UNCHANGED frame
    /\ UNCHANGED <<platform, cbLock, cbPoisoned, metadata, rendered, hostLog, replaced>>
    /\ UNCHANGED <<cmdVars, dispVars, lcVars, extVars>>

(***************************************************************************)
(* NotificationManager::show_notification: store the metadata, then ask    *)
(* the platform backend to render.                                         *)
(***************************************************************************)
\* a variant that leaves the recording to the backend
SkipStore(md, id, url) == md

\* if let Some(ref notification_url) = url { self.store_metadata(..) }
StoreIfUrl(md, id, url) == IF IsSome(url) THEN store_metadata(md, id, Unwrap(url)) ELSE md

\* history kept with a store of (id, url): the entry it replaces by another url is
\* remembered as replaced, the entry it writes is current again
Replaced(rep, md, id, url) ==
    IF IsSome(url)
    THEN (rep \ {[id |-> id, url |-> Unwrap(url)]})
         \cup (IF id \in DOMAIN md /\ md[id] # Unwrap(url) THEN {[id |-> id, url |-> md[id]]} ELSE {})
    ELSE rep

InFlight == {t \in Threads : frame[t].pc = "render"}

ShowStore(t, id, url) ==
    /\ frame[t].pc = "idle"
    /\ Cardinality(rendered) + Cardinality(InFlight) < MaxRendered
    /\ metadata' = StoreIfUrl(metadata, id, url)
    /\ replaced' = Replaced(replaced, metadata, id, url)
    /\ SetFrame(t, [IdleFrame EXCEPT !.pc = "render", !.op = "show", !.id = id, !.url = url])
    /\ UNCHANGED <<platform, callback, cbLock, cbPoisoned, rendered, hostLog, lastSet, didReplace>>
    /\ UNCHANGED <<cmdVars, dispVars, lcVars, extVars>>

\* macos::show_notification: addNotificationRequest replaces a delivered request with
\* the same identifier; when it fails nothing is delivered, the failure is only logged
\* by the completion handler, and the function has returned Ok(()).  The url is not
\* passed on (it is kept here to tell which show call the notification comes from).
\* windows::show_notification / linux::show_notification: the native show may fail;
\* on Windows the toast keeps (id, url) in its on_activated closure.
PlatformShow(p, rd, id, url, ok) ==
    IF p = "macos"
    THEN [rendered |-> IF ok THEN {n \in rd : n.id # id} \cup {[id |-> id, url |-> url]} ELSE rd,
          result |-> "Ok"]
    ELSE IF ok
    THEN [rendered |-> rd \cup {[id |-> id, url |-> url]}, result |-> "Ok"]
    ELSE [rendered |-> rd, result |-> "Err"]

ShowRender(t) ==
    /\ frame[t].pc = "render"
    /\ \E ok \in BOOLEAN :
         LET r == PlatformShow(platform, rendered, frame[t].id, frame[t].url, ok)
         IN  /\ rendered' = r.rendered
             /\ SetFrame(t, IdleFrame)
    /\ UNCHANGED <<platform, callback, cbLock, cbPoisoned, metadata, hostLog, lastSet, didReplace, replaced>>
    /\ UNCHANGED <<cmdVars, dispVars, lcVars, extVars>>

(***************************************************************************)
(* Native click events                                                     *)
(***************************************************************************)
\* macos.rs did_receive_response: the three-way mapping of the action identifier
\* a variant without the dismiss case
MacActionNoDismiss(aid) == IF aid = MacDefaultAction THEN Body ELSE Button(aid)

MacAction(aid) ==
    IF aid = MacDefaultAction THEN Body
    ELSE IF aid = MacDismissAction THEN Dismiss
    ELSE Button(aid)

\* the urls the notification(s) now carrying this id were shown with
ShownWith(id) == {n.url : n \in {m \in rendered : m.id = id}}

\* macos.rs did_receive_response up to the call of handle_click: the delegate is
\* process-wide and is told about any notification of the application, also one the
\* manager has no record of
NativeClickMac(t, identifier, aid) ==
    /\ platform = "macos"
    /\ frame[t].pc = "idle"
    /\ SetFrame(t, [IdleFrame EXCEPT !.pc = "handle", !.op = "click", !.id = identifier,
                       !.url = get_metadata(identifier), !.action = MacAction(aid)])
    /\ UNCHANGED <<platform, callback, cbLock, cbPoisoned, metadata, rendered, hostLog, lastSet, didReplace, replaced>>
    /\ UNCHANGED <<cmdVars, dispVars, lcVars, extVars>>

\* windows.rs on_activated closure up to the call of handle_click
WinAction(btn) == IF IsSome(btn) THEN Button(Unwrap(btn)) ELSE Body

ToastActivated(t, n, btn) ==
    /\ platform = "windows"
    /\ frame[t].pc = "idle"
    /\ n \in rendered
    /\ SetFrame(t, [IdleFrame EXCEPT !.pc = "handle", !.op = "click", !.id = n.id,
                       !.url = n.url, !.action = WinAction(btn)])
    /\ UNCHANGED <<platform, callback, cbLock, cbPoisoned, metadata, rendered, hostLog, lastSet, didReplace, replaced>>
    /\ UNCHANGED <<cmdVars, dispVars, lcVars, extVars>>

(***************************************************************************)
(* NotificationManager::handle_click                                       *)
(***************************************************************************)
\* if let Some(callback) = self.callback.lock().unwrap().as_ref() { callback(click) }
\* the guard returned by lock() lives until the end of the if-let: the callback
\* mutex is held while the callback runs
\* a variant that calls nothing
NoCallbacksToRun(slot) == None

\* a variant that falls back to the default dispatcher when the slot is empty
DefaultWhenEmpty(slot) == IF IsSome(slot) THEN slot ELSE Some("default")

\* the callbacks handle_click calls: the one in the slot, if any
CallbacksToRun(slot) == slot

HandleClickLock(t) ==
    /\ frame[t].pc = "handle"
    /\ cbLock = NoThread
    /\ IF cbPoisoned
       THEN /\ Panicked(t, frame[t])
            /\ UNCHANGED cbLock
       ELSE IF CallbacksToRun(callback) # <<>>
       THEN /\ cbLock' = t
            /\ SetFrame(t, [frame[t] EXCEPT !.pc = "callback", !.ran = CallbacksToRun(callback)])
       ELSE /\ SetFrame(t, IdleFrame)
            /\ UNCHANGED cbLock
    /\ UNCHANGED <<platform, callback, cbPoisoned, metadata, rendered, hostLog, lastSet, didReplace, replaced>>
    /\ UNCHANGED <<cmdVars, dispVars, lcVars, extVars>>

ClickOf(f) == NotificationClick(f.id, f.url, f.action)

\* what the registered callback does to the GUI host
CallbackEffects(cb, click) == IF cb = "default" THEN DefaultCallback(click) ELSE <<>>

Range(seq) == {seq[i] : i \in 1..Len(seq)}

\* a callback that takes no manager lock runs and returns (the default dispatcher,
\* A, B, and a callback that calls get_metadata: the metadata mutex is free); the
\* guard is dropped; handle_click returns
RunCallback(t) ==
    /\ frame[t].pc = "callback"
    /\ \A i \in 1..Len(frame[t].ran) : frame[t].ran[i] \in {"default", "A", "B", "reGet"}
    /\ hostLog' = hostLog \cup UNION {Range(CallbackEffects(frame[t].ran[i], ClickOf(frame[t]))) :
                                        i \in 1..Len(frame[t].ran)}
    /\ cbLock' = NoThread
    /\ SetFrame(t, IdleFrame)
    /\ UNCHANGED <<platform, callback, cbPoisoned, metadata, rendered, lastSet, didReplace, replaced>>
    /\ UNCHANGED <<cmdVars, dispVars, lcVars, extVars>>

\* a callback that calls show_notification(click.id, .., click.url): it takes the
\* metadata mutex only, and returns
RunCallbackShow(t) ==
    /\ frame[t].pc = "callback"
    /\ \E i \in 1..Len(frame[t].ran) : frame[t].ran[i] = "reShow"
    /\ metadata' = StoreIfUrl(metadata, frame[t].id, frame[t].url)
    /\ replaced' = Replaced(replaced, metadata, frame[t].id, frame[t].url)
    /\ \E ok \in BOOLEAN :
         rendered' = PlatformShow(platform, rendered, frame[t].id, frame[t].url, ok).rendered
    /\ cbLock' = NoThread
    /\ SetFrame(t, IdleFrame)
    /\ UNCHANGED <<platform, callback, cbPoisoned, hostLog, lastSet, didReplace>>
    /\ UNCHANGED <<cmdVars, dispVars, lcVars, extVars>>

\* a callback that calls set_callback or handle_click: lock() on the callback mutex
\* its own thread holds.  std::sync::Mutex::lock leaves this unspecified: the call
\* never returns, it deadlocks or it panics; a panic unwinds through handle_click,
\* whose guard poisons and releases the mutex.
RunCallbackRelock(t) ==
    /\ frame[t].pc = "callback"
    /\ \E i \in 1..Len(frame[t].ran) : frame[t].ran[i] \in {"reSet", "reClick"}
    /\ cbLock = t
    /\ \/ /\ SetFrame(t, [frame[t] EXCEPT !.pc = "deadlocked"])
          /\ UNCHANGED <<cbLock, cbPoisoned>>
       \/ /\ Panicked(t, frame[t])
          /\ cbLock' = NoThread
          /\ cbPoisoned' = TRUE
    /\ UNCHANGED <<platform, callback, metadata, rendered, hostLog, lastSet, didReplace, replaced>>
    /\ UNCHANGED <<cmdVars, dispVars, lcVars, extVars>>

\* a callback that panics: nothing between the callback and the native caller catches
\* the unwind (no catch_unwind in handle_click, did_receive_response or on_activated);
\* it passes through handle_click, whose guard poisons and releases the callback
\* mutex, and leaves the native callback
RunCallbackPanic(t) ==
    /\ frame[t].pc = "callback"
    /\ \E i \in 1..Len(frame[t].ran) : frame[t].ran[i] \in PanickingCallbacks
    /\ cbLock = t
    /\ Panicked(t, frame[t])
    /\ cbLock' = NoThread
    /\ cbPoisoned' = TRUE
    /\ UNCHANGED <<platform, callback, metadata, rendered, hostLog, lastSet, didReplace, replaced>>
    /\ UNCHANGED <<cmdVars, dispVars, lcVars, extVars>>

Next ==
    \/ \E t \in Threads, cb \in Callbacks : SetCallback(t, cb)
    \/ \E t \in AppThreads, id \in Ids, url \in UrlOpts : ShowStore(t, id, url)
    \/ \E t \in AppThreads : ShowRender(t)
    \/ \E t \in OsThreads, id \in Ids, aid \in MacActionIdentifiers : NativeClickMac(t, id, aid)
    \/ \E t \in OsThreads, n \in rendered, btn \in {None, Some("reply")} : ToastActivated(t, n, btn)
    \/ \E t \in OsThreads : HandleClickLock(t)
    \/ \E t \in OsThreads : RunCallback(t)

Spec == Init /\ [][Next]_vars

(***************************************************************************)
(* The manager under every kind of callback, those that re-enter it        *)
(* included, for one notification id.                                      *)
(***************************************************************************)
NextCallbacks ==
    \/ \E t \in Threads, cb \in Callbacks \cup ReentrantCallbacks \cup PanickingCallbacks :
          SetCallback(t, cb)
    \/ \E t \in AppThreads, url \in UrlOpts : ShowStore(t, "n1", url)
    \/ \E t \in AppThreads : ShowRender(t)
    \/ \E t \in OsThreads, aid \in {MacDefaultAction} : NativeClickMac(t, "n1", aid)
    \/ \E t \in OsThreads, n \in rendered : ToastActivated(t, n, None)
    \/ \E t \in OsThreads : HandleClickLock(t)
    \/ \E t \in OsThreads : RunCallback(t)
    \/ \E t \in OsThreads : RunCallbackShow(t)
    \/ \E t \in OsThreads : RunCallbackRelock(t)
    \/ \E t \in OsThreads : RunCallbackPanic(t)

SpecCallbacks == Init /\ [][NextCallbacks]_vars

(***************************************************************************)
(* The default dispatcher alone, on every click it can be handed.          *)
(***************************************************************************)
DispatchUrls ==
    {"cushion://x", "cushion-dev://team/post/1", "https://app.cushion.so/y",
     "https://docs.cushion.so/a", "https://cushion.so/", "https://notcushion.so/z",
     "https://evil.com/y", "https://app.cushion.so@evil.com/", "http://app.cushion.so/y",
     "javascript:alert(1)", "not a url"}

DispatchClicks ==
    {NotificationClick(id, url, action) :
        id \in Ids, url \in {None} \cup {Some(u) : u \in DispatchUrls},
        action \in {Body, Dismiss, Button("reply")}}

InitDispatch ==
    /\ ExtIdle
    /\ CmdIdle
    /\ platform = "macos"
    /\ InitializedOnce("macos")
    /\ callback = Some("default")
    /\ cbLock = NoThread
    /\ cbPoisoned = FALSE
    /\ metadata = << >>
    /\ rendered = {}
    /\ frame = [t \in Threads |-> IdleFrame]
    /\ hostLog = {}
    /\ lastSet = Some("default")
    /\ didReplace = FALSE
    /\ replaced = {}
    /\ dClick \in DispatchClicks
    /\ dEffects = <<>>
    /\ dState = "delivered"

Dispatch ==
    /\ dState = "delivered"
    /\ dEffects' = DefaultCallback(dClick)
    /\ dState' = "returned"
    /\ UNCHANGED <<dClick, mgrVars, cmdVars, lcVars, extVars>>

NextClick ==
    /\ dState = "returned"
    /\ dClick' \in DispatchClicks
    /\ dEffects' = <<>>
    /\ dState' = "delivered"
    /\ UNCHANGED <<mgrVars, cmdVars, lcVars, extVars>>

NextDispatch == Dispatch \/ NextClick

SpecDispatch == InitDispatch /\ [][NextDispatch]_vars

(***************************************************************************)
(* commands/notification.rs: the show_notification command and the click   *)
(* handler built on the notification plugin, next to the manager that      *)
(* lib.rs sets up with the default dispatcher.                             *)
(***************************************************************************)
MaxClock == 1

CmdUrls == {"cushion://x", "https://app.cushion.so/y", "https://evil.com/y"}

\* format!("cushion-notif-{}", chrono::Utc::now().timestamp_millis())
NotificationId(millis) == "cushion-notif-" \o ToString(millis)

\* urls.insert(notification_id, notification_url) when a url is given
InsertUrl(urls, id, url) ==
    IF IsSome(url)
    THEN [k \in DOMAIN urls \cup {id} |-> IF k = id THEN Unwrap(url) ELSE urls[k]]
    ELSE urls

\* a variant that leaves the entry in the map
KeepUrl(urls, id) == urls

\* urls.remove(&notification_id): what is left in the map
RemoveUrl(urls, id) == [k \in DOMAIN urls \ {id} |-> urls[k]]

\* the conversion of the stored url into the deep link the handler emits
DeepLinkOf(url) ==
    IF StartsWith(url, "https://app.cushion.so/")
    THEN Replace(url, "https://app.cushion.so/", "cushion://")
    ELSE IF StartsWith(url, "http://localhost:3000/")
    THEN Replace(url, "http://localhost:3000/", "cushion://")
    ELSE IF StartsWith(url, "cushion://")
    THEN url
    ELSE "cushion://" \o TrimStartMatches(url, "/")

\* what the on_action closure does for a notification whose stored url is `stored`
OnActionEffects(stored) ==
    IF IsSome(stored)
    THEN <<Emit("deep-link", DeepLinkOf(Unwrap(stored)))>> \o FocusWindow
    ELSE <<>>

\* lib.rs setup: notifications::setup(app.handle()) has registered the default
\* dispatcher; the command's map is empty
InitCmd ==
    /\ ExtIdle
    /\ DispIdle
    /\ platform \in Platforms
    /\ InitializedOnce(platform)
    /\ callback = Some("default")
    /\ cbLock = NoThread
    /\ cbPoisoned = FALSE
    /\ metadata = << >>
    /\ rendered = {}
    /\ frame = [t \in Threads |-> IdleFrame]
    /\ hostLog = {}
    /\ lastSet = Some("default")
    /\ didReplace = FALSE
    /\ replaced = {}
    /\ NOTIFICATION_URLS = << >>
    /\ now = 0
    /\ delivered = {}
    /\ onActionLast = NoOnAction

\* the clock advances
Tick ==
    /\ now < MaxClock
    /\ now' = now + 1
    /\ UNCHANGED <<NOTIFICATION_URLS, delivered, onActionLast, mgrVars, dispVars, lcVars, extVars>>

\* #[tauri::command] show_notification(app, title, body, url); ok: the plugin's
\* show() succeeds
CmdShowNotification(url, ok) ==
    LET notification_id == NotificationId(now)
    IN  /\ NOTIFICATION_URLS' = InsertUrl(NOTIFICATION_URLS, notification_id, url)
        /\ delivered' = IF ok THEN delivered \cup {notification_id} ELSE delivered
        /\ UNCHANGED <<now, onActionLast, mgrVars, dispVars, lcVars, extVars>>

\* the closure setup_notification_click_handler passes to on_action; again: the run
\* of the closure before this one was for the same id and found a url
OnAction(notification_id) ==
    LET stored == IF notification_id \in DOMAIN NOTIFICATION_URLS
                  THEN Some(NOTIFICATION_URLS[notification_id]) ELSE None
    IN  /\ NOTIFICATION_URLS' = RemoveUrl(NOTIFICATION_URLS, notification_id)
        /\ onActionLast' = [id |-> notification_id, url |-> stored,
                            effects |-> OnActionEffects(stored),
                            again |-> (onActionLast.id = notification_id
                                         /\ IsSome(onActionLast.url))]
        /\ UNCHANGED <<now, delivered, mgrVars, dispVars, lcVars, extVars>>

\* the id the plugin gives the test notification of check_notification_permission,
\* which is built without one
PermissionCheckId == "permission-check"

\* a variant that passes the failure of show() on to the caller
CheckResultPropagated(shown) ==
    IF shown THEN Ok("granted") ELSE Err("Permission check failed")

\* the match on the result of show() in check_notification_permission
CheckResult(shown) == IF shown THEN Ok("granted") ELSE Ok("denied")

\* #[tauri::command] check_notification_permission(app): shows a test notification
\* through the plugin; ok: the plugin's show() succeeds
CmdCheckPermission(ok) ==
    /\ checkLast' = [called |-> TRUE, failed |-> ~ok, result |-> CheckResult(ok)]
    /\ delivered' = IF ok THEN delivered \cup {PermissionCheckId} ELSE delivered
    /\ UNCHANGED <<permPc, permWaited, permChan, permGot, permStatusGot, permResult>>
    /\ UNCHANGED <<NOTIFICATION_URLS, now, onActionLast, mgrVars, dispVars, lcVars, updVars, dlVars>>

NextCmd ==
    \/ Tick
    \/ \E ok \in BOOLEAN : CmdCheckPermission(ok)
    \/ \E url \in {None} \cup {Some(u) : u \in CmdUrls}, ok \in BOOLEAN : CmdShowNotification(url, ok)
    \/ \E id \in delivered : OnAction(id)
    \/ \E t \in OsThreads, id \in delivered : NativeClickMac(t, id, MacDefaultAction)
    \/ \E t \in OsThreads : HandleClickLock(t)
    \/ \E t \in OsThreads : RunCallback(t)

SpecCmd == InitCmd /\ [][NextCmd]_vars

(***************************************************************************)
(* The life cycle of the manager: the statics from before                  *)
(* NotificationManager::init on, over repeated calls of init and get, the  *)
(* backends' show_notification functions, and the native click callbacks.  *)
(***************************************************************************)
MaxInits == 2

NotInitialized == "Err: Notification manager not initialized"

\* a variant that does not ask for the singleton
BackendShowUnchecked(cell, p, rd, id, url, ok) ==
    LET r == PlatformShow(p, rd, id, url, ok)
    IN  [rendered |-> r.rendered, result |-> r.result, native |-> 1]

\* the backend's show_notification as a whole: windows.rs and linux.rs first take the
\* singleton, NotificationManager::get().ok_or_else(..)?, macos.rs does not; then the
\* one native show call.  native: the number of native show calls made
BackendShow(cell, p, rd, id, url, ok) ==
    IF p \in {"windows", "linux"} /\ cell = None
    THEN [rendered |-> rd, result |-> NotInitialized, native |-> 0]
    ELSE LET r == PlatformShow(p, rd, id, url, ok)
         IN  [rendered |-> r.rendered, result |-> r.result, native |-> 1]

\* OnceLock::set(..).ok(): the cell keeps a value it already holds
OnceLockSet(cell, n) == IF IsSome(cell) THEN cell ELSE Some(n)

InitLifecycle ==
    /\ ExtIdle
    /\ CmdIdle
    /\ DispIdle
    /\ platform \in Platforms
    /\ callback = None
    /\ cbLock = NoThread
    /\ cbPoisoned = FALSE
    /\ metadata = << >>
    /\ rendered = {}
    /\ frame = [t \in Threads |-> IdleFrame]
    /\ hostLog = {}
    /\ lastSet = None
    /\ didReplace = FALSE
    /\ replaced = {}
    /\ managerCell = None
    /\ macManager = None
    /\ delegateClass = FALSE
    /\ managers = 0
    /\ toastManager = {}
    /\ lcLast = NoCall

\* NotificationManager::init: a new instance n; the platform setup; the OnceLock.
\* macos::setup stores the instance in its static, then create_notification_delegate
\* declares the class CushionNotificationDelegate: ClassDecl::new(..) is None when the
\* class is registered already, and expect(..) panics
LcInit ==
    /\ managers < MaxInits
    /\ managers' = managers + 1
    /\ IF platform = "macos"
       THEN /\ macManager' = Some(managers + 1)
            /\ IF delegateClass
               THEN /\ lcLast' = [NoCall EXCEPT !.op = "init", !.result = "panicked"]
                    /\ UNCHANGED <<managerCell, delegateClass>>
               ELSE /\ delegateClass' = TRUE
                    /\ managerCell' = OnceLockSet(managerCell, managers + 1)
                    /\ lcLast' = [NoCall EXCEPT !.op = "init", !.result = "returned",
                                                !.manager = Some(managers + 1)]
       ELSE /\ managerCell' = OnceLockSet(managerCell, managers + 1)
            /\ lcLast' = [NoCall EXCEPT !.op = "init", !.result = "returned",
                                        !.manager = Some(managers + 1)]
            /\ UNCHANGED <<macManager, delegateClass>>
    /\ UNCHANGED <<toastManager, mgrVars, cmdVars, dispVars, extVars>>

\* NotificationManager::get
LcGet ==
    /\ lcLast' = [NoCall EXCEPT !.op = "get", !.result = "returned", !.manager = managerCell]
    /\ UNCHANGED <<managerCell, macManager, delegateClass, managers, toastManager>>
    /\ UNCHANGED <<mgrVars, cmdVars, dispVars, extVars>>

\* md.get(id).cloned()
EntryOf(md, id) == IF id \in DOMAIN md THEN Some(md[id]) ELSE None

\* a Windows toast: its on_activated closure holds the id, the url and the manager;
\* stored: what the metadata map held under the id when the manager's
\* show_notification showed the toast (None for a toast the manager did not show)
Toast(id, url, manager, stored) == [id |-> id, url |-> url, manager |-> manager, stored |-> stored]

\* the backend's show_notification(id, title, body, url); ok: the native show call
\* succeeds.  A Windows toast keeps the manager it got from get() in its closure.
LcBackendShow(id, url, ok) ==
    /\ Cardinality(rendered) < MaxRendered
    /\ LET r == BackendShow(managerCell, platform, rendered, id, url, ok)
       IN  /\ rendered' = r.rendered
           /\ toastManager' = IF platform = "windows" /\ r.result = "Ok"
                              THEN toastManager \cup {Toast(id, url, managerCell, None)}
                              ELSE toastManager
           /\ lcLast' = [NoCall EXCEPT !.op = "show", !.id = id, !.native = r.native,
                                       !.failed = (r.native > 0 /\ ~ok), !.result = r.result]
    /\ UNCHANGED <<managerCell, macManager, delegateClass, managers>>
    /\ UNCHANGED <<platform, callback, cbLock, cbPoisoned, metadata, frame, hostLog, lastSet,
                   didReplace, replaced, cmdVars, dispVars, extVars>>

\* NotificationManager::show_notification(id, title, body, url) as a whole, called on
\* the singleton: the metadata is stored, then the backend's show_notification is
\* called and its result returned
LcManagerShow(id, url, ok) ==
    /\ IsSome(managerCell)
    /\ Cardinality(rendered) < MaxRendered
    /\ metadata' = StoreIfUrl(metadata, id, url)
    /\ LET r == BackendShow(managerCell, platform, rendered, id, url, ok)
       IN  /\ rendered' = r.rendered
           /\ toastManager' = IF platform = "windows" /\ r.result = "Ok"
                              THEN toastManager \cup {Toast(id, url, managerCell,
                                                           EntryOf(StoreIfUrl(metadata, id, url), id))}
                              ELSE toastManager
           /\ lcLast' = [NoCall EXCEPT !.op = "managerShow", !.id = id, !.url = url,
                                       !.native = r.native,
                                       !.failed = (r.native > 0 /\ ~ok), !.result = r.result]
    /\ UNCHANGED <<managerCell, macManager, delegateClass, managers>>
    /\ UNCHANGED <<platform, callback, cbLock, cbPoisoned, frame, hostLog, lastSet,
                   didReplace, replaced, cmdVars, dispVars, extVars>>

\* a native click arrives: macOS calls did_receive_response of the installed delegate,
\* which uses the manager in the static of macos.rs; a Windows toast uses the manager
\* in its closure.  manager: the instance whose handle_click is called.
LcNativeClick(id) ==
    /\ \/ /\ platform = "macos"
          /\ delegateClass
          /\ lcLast' = [NoCall EXCEPT !.op = "click", !.id = id, !.url = get_metadata(id),
                                      !.manager = macManager]
       \/ /\ platform = "windows"
          /\ \E tm \in toastManager :
               /\ tm.id = id
               /\ lcLast' = [NoCall EXCEPT !.op = "click", !.id = id, !.url = tm.url,
                                           !.manager = tm.manager, !.toast = Some(tm)]
    /\ UNCHANGED <<managerCell, macManager, delegateClass, managers, toastManager>>
    /\ UNCHANGED <<mgrVars, cmdVars, dispVars, extVars>>

NextLifecycle ==
    \/ LcInit
    \/ LcGet
    \/ \E id \in Ids, url \in UrlOpts, ok \in BOOLEAN : LcBackendShow(id, url, ok)
    \/ \E id \in Ids, url \in UrlOpts, ok \in BOOLEAN : LcManagerShow(id, url, ok)
    \/ \E id \in Ids : LcNativeClick(id)

SpecLifecycle == InitLifecycle /\ [][NextLifecycle]_vars

(***************************************************************************)
(* notifications/macos.rs: request_notification_permission and its        *)
(* fallback get_current_authorization_status.  The completion handlers    *)
(* are called by the OS, or never; time is counted in seconds.            *)
(***************************************************************************)
RequestTimeoutSecs == 30
StatusTimeoutSecs == 5

UN_AUTHORIZATION_STATUS_NOT_DETERMINED == 0
UN_AUTHORIZATION_STATUS_DENIED == 1
UN_AUTHORIZATION_STATUS_AUTHORIZED == 2

\* the values of UNAuthorizationStatus the OS reports (3 provisional, 4 ephemeral)
AuthorizationStatuses == 0..4

PermissionErrors == {"Notifications are not allowed for this application"}

\* what the completion handler of the request sends: (granted == YES, error_msg)
Completion(granted, error_msg) == [granted |-> granted, error |-> error_msg]

Completions ==
    {Completion(g, e) : g \in BOOLEAN, e \in {None} \cup {Some(x) : x \in PermissionErrors}}

\* the Ok arm of the match on the request's recv_timeout
RequestOutcome(msg) ==
    IF IsSome(msg.error)
    THEN Err(Unwrap(msg.error))
    ELSE Ok(IF msg.granted THEN "granted" ELSE "denied")

\* a variant that reports every status but an explicit denial as granted
StatusStrNotDenied(status) ==
    IF status = UN_AUTHORIZATION_STATUS_DENIED THEN "denied" ELSE "granted"

\* the match on the authorization status
StatusStr(status) ==
    CASE status = UN_AUTHORIZATION_STATUS_NOT_DETERMINED -> "denied"
      [] status = UN_AUTHORIZATION_STATUS_DENIED         -> "denied"
      [] status = UN_AUTHORIZATION_STATUS_AUTHORIZED     -> "granted"
      [] OTHER                                           -> "denied"

SettingsFailure == "Failed to get notification settings"

\* request_notification_permission up to recv_timeout; on the other platforms the
\* whole function, which returns granted
PermRequest ==
    /\ permPc = "idle"
    /\ IF platform = "macos"
       THEN /\ permPc' = "waitRequest"
            /\ UNCHANGED permResult
       ELSE /\ permPc' = "done"
            /\ permResult' = Some(Ok("granted"))
    /\ UNCHANGED <<permWaited, permChan, permGot, permStatusGot, checkLast>>
    /\ UNCHANGED <<mgrVars, cmdVars, dispVars, lcVars, updVars, dlVars>>

\* the OS calls the completion handler of requestAuthorizationWithOptions: tx.send
PermCompletion(msg) ==
    /\ permPc = "waitRequest"
    /\ permChan = None
    /\ permChan' = Some(msg)
    /\ UNCHANGED <<permPc, permWaited, permGot, permStatusGot, permResult, checkLast>>
    /\ UNCHANGED <<mgrVars, cmdVars, dispVars, lcVars, updVars, dlVars>>

\* a second passes in rx.recv_timeout(Duration::from_secs(30)) with nothing received
PermWaitRequest ==
    /\ permPc = "waitRequest"
    /\ permChan = None
    /\ permWaited < RequestTimeoutSecs
    /\ permWaited' = permWaited + 1
    /\ UNCHANGED <<permPc, permChan, permGot, permStatusGot, permResult, checkLast>>
    /\ UNCHANGED <<mgrVars, cmdVars, dispVars, lcVars, updVars, dlVars>>

\* recv_timeout returns Ok((granted, error_msg))
PermRecvRequest ==
    /\ permPc = "waitRequest"
    /\ IsSome(permChan)
    /\ permGot' = permChan
    /\ permChan' = None
    /\ permResult' = Some(RequestOutcome(Unwrap(permChan)))
    /\ permPc' = "done"
    /\ UNCHANGED <<permWaited, permStatusGot, checkLast>>
    /\ UNCHANGED <<mgrVars, cmdVars, dispVars, lcVars, updVars, dlVars>>

\* recv_timeout returns Err(Timeout): get_current_authorization_status() up to its
\* own recv_timeout
PermTimeoutRequest ==
    /\ permPc = "waitRequest"
    /\ permChan = None
    /\ permWaited = RequestTimeoutSecs
    /\ permPc' = "waitStatus"
    /\ permWaited' = 0
    /\ UNCHANGED <<permChan, permGot, permStatusGot, permResult, checkLast>>
    /\ UNCHANGED <<mgrVars, cmdVars, dispVars, lcVars, updVars, dlVars>>

\* the OS calls the completion handler of getNotificationSettings: tx.send(status)
PermSettings(status) ==
    /\ permPc = "waitStatus"
    /\ permChan = None
    /\ permChan' = Some(status)
    /\ UNCHANGED <<permPc, permWaited, permGot, permStatusGot, permResult, checkLast>>
    /\ UNCHANGED <<mgrVars, cmdVars, dispVars, lcVars, updVars, dlVars>>

\* a second passes in rx.recv_timeout(Duration::from_secs(5)) with nothing received
PermWaitStatus ==
    /\ permPc = "waitStatus"
    /\ permChan = None
    /\ permWaited < StatusTimeoutSecs
    /\ permWaited' = permWaited + 1
    /\ UNCHANGED <<permPc, permChan, permGot, permStatusGot, permResult, checkLast>>
    /\ UNCHANGED <<mgrVars, cmdVars, dispVars, lcVars, updVars, dlVars>>

\* recv_timeout returns Ok(status)
PermRecvStatus ==
    /\ permPc = "waitStatus"
    /\ IsSome(permChan)
    /\ permStatusGot' = permChan
    /\ permChan' = None
    /\ permResult' = Some(Ok(StatusStr(Unwrap(permChan))))
    /\ permPc' = "done"
    /\ UNCHANGED <<permWaited, permGot, checkLast>>
    /\ UNCHANGED <<mgrVars, cmdVars, dispVars, lcVars, updVars, dlVars>>

\* recv_timeout returns Err(_)
PermTimeoutStatus ==
    /\ permPc = "waitStatus"
    /\ permChan = None
    /\ permWaited = StatusTimeoutSecs
    /\ permResult' = Some(Err(SettingsFailure))
    /\ permPc' = "done"
    /\ UNCHANGED <<permWaited, permChan, permGot, permStatusGot, checkLast>>
    /\ UNCHANGED <<mgrVars, cmdVars, dispVars, lcVars, updVars, dlVars>>

NextPermission ==
    \/ PermRequest
    \/ \E msg \in Completions : PermCompletion(msg)
    \/ PermWaitRequest
    \/ PermRecvRequest
    \/ PermTimeoutRequest
    \/ \E status \in AuthorizationStatuses : PermSettings(status)
    \/ PermWaitStatus
    \/ PermRecvStatus
    \/ PermTimeoutStatus

\* the calling thread runs: time passes and recv_timeout returns
SpecPermission == Init /\ [][NextPermission]_vars /\ WF_vars(NextPermission)

(***************************************************************************)
(* The pending-update hand-off: the background task of                    *)
(* setup_auto_update_check stores the version it found, and the           *)
(* Focused(true) arm of handle_window_event takes it and shows the update *)
(* dialog (lib.rs; the same code is in updater/ and window/events.rs).    *)
(***************************************************************************)
MaxChecks == 3
MaxFocus == 3

Versions == {"1.0.1", "1.0.2"}

\* PendingUpdate::set: *self.0.lock().unwrap() = Some(version)
PendingSet(slot, version) == Some(version)

\* a variant that reads the slot and leaves it as it is
PendingPeek(slot) == [value |-> slot, slot |-> slot]

\* PendingUpdate::take: self.0.lock().unwrap().take()
PendingTake(slot) == [value |-> slot, slot |-> None]

\* check_for_update_silent(&app).await returns; found: Some(version) when an update
\* is available, None when the app is up to date or the check failed.  With None the
\* task goes to sleep for four hours.
UpdCheck(found) ==
    /\ checker.pc = "sleep"
    /\ checks < MaxChecks
    /\ checks' = checks + 1
    /\ checker' = IF IsSome(found) THEN [pc |-> "store", version |-> Unwrap(found)]
                  ELSE CheckerAsleep
    /\ UNCHANGED <<pendingUpdate, focus, stores, dialogs, focusEvents, lastFocus>>
    /\ UNCHANGED <<mgrVars, cmdVars, dispVars, lcVars, permVars, dlVars>>

\* the task stores the version it found, then sleeps for four hours
UpdStore ==
    /\ checker.pc = "store"
    /\ pendingUpdate' = PendingSet(pendingUpdate, checker.version)
    /\ stores' = stores + 1
    /\ checker' = CheckerAsleep
    /\ UNCHANGED <<focus, checks, dialogs, focusEvents, lastFocus>>
    /\ UNCHANGED <<mgrVars, cmdVars, dispVars, lcVars, permVars, dlVars>>

\* WindowEvent::Focused(true): let pending = state.0.lock().unwrap().take()
FocusTake ==
    /\ focus.pc = "idle"
    /\ focusEvents < MaxFocus
    /\ focusEvents' = focusEvents + 1
    /\ LET r == PendingTake(pendingUpdate)
       IN  /\ pendingUpdate' = r.slot
           /\ focus' = [pc |-> "took", pending |-> r.value]
           /\ lastFocus' = [had |-> IsSome(r.value), dialog |-> FALSE, stores |-> stores]
    /\ UNCHANGED <<checker, checks, stores, dialogs>>
    /\ UNCHANGED <<mgrVars, cmdVars, dispVars, lcVars, permVars, dlVars>>

\* if pending.is_some() { show_update_dialog(window.app_handle()) }
FocusDialog ==
    /\ focus.pc = "took"
    /\ dialogs' = IF IsSome(focus.pending) THEN dialogs + 1 ELSE dialogs
    /\ lastFocus' = [lastFocus EXCEPT !.dialog = IsSome(focus.pending)]
    /\ focus' = FocusIdle
    /\ UNCHANGED <<pendingUpdate, checker, checks, stores, focusEvents>>
    /\ UNCHANGED <<mgrVars, cmdVars, dispVars, lcVars, permVars, dlVars>>

NextUpdate ==
    \/ \E found \in {None} \cup {Some(v) : v \in Versions} : UpdCheck(found)
    \/ UpdStore
    \/ FocusTake
    \/ FocusDialog

SpecUpdate == Init /\ [][NextUpdate]_vars

(***************************************************************************)
(* commands/download.rs: get_unique_download_path.  The candidates are     *)
(* numbered: 0 is the file name as given, n >= 1 is "stem (n).ext"; the    *)
(* Downloads folder is described by the numbers of the candidates that     *)
(* exist in it: all below `leading`, and those in `others`.                *)
(***************************************************************************)
SafetyLimit == 1000

DownloadDirs == {"/home/u/Downloads"}

DlFilenames == {"report.pdf", "archive.tar.gz", "notes", ".env", "img/photo.png"}

DlLeading == {0, 1, 2, 3, SafetyLimit - 1, SafetyLimit, SafetyLimit + 1}

DlFolders ==
    UNION {{[leading |-> k, others |-> {}], [leading |-> k, others |-> {k + 1}]} : k \in DlLeading}

NoDownloadsFolder == "Could not find Downloads folder"
TooManyFiles == "Too many files with same name"

\* Path::file_name for a relative path that does not end in a separator or in "..":
\* the last component
PathFileName(filename) ==
    SubSeq(filename, LastIndexOfAny(filename, {"/"}, Len(filename)) + 1, Len(filename))

\* std::path rsplit_file_at_dot: a name without a dot, or with its only dot in front,
\* has no extension
RsplitFileAtDot(name) ==
    LET d == LastIndexOfAny(name, {"."}, Len(name))
    IN  IF name = ".." THEN [before |-> Some(name), after |-> None]
        ELSE IF d = 0 THEN [before |-> None, after |-> Some(name)]
        ELSE IF d = 1 THEN [before |-> Some(name), after |-> None]
        ELSE [before |-> Some(SubSeq(name, 1, d - 1)),
              after |-> Some(SubSeq(name, d + 1, Len(name)))]

\* Path::new(filename).file_stem().and_then(|s| s.to_str()).unwrap_or("download")
FileStem(filename) ==
    LET r == RsplitFileAtDot(PathFileName(filename))
    IN  IF PathFileName(filename) = "" THEN "download"
        ELSE IF IsSome(r.before) THEN Unwrap(r.before) ELSE Unwrap(r.after)

\* Path::new(filename).extension().and_then(|s| s.to_str())
FileExtension(filename) ==
    LET r == RsplitFileAtDot(PathFileName(filename))
    IN  IF PathFileName(filename) = "" THEN None
        ELSE IF IsSome(r.before) THEN r.after ELSE None

\* format!("{} ({}).{}", stem, counter, ext) / format!("{} ({})", stem, counter)
NewName(filename, n) ==
    IF IsSome(FileExtension(filename))
    THEN FileStem(filename) \o " (" \o ToString(n) \o ")." \o Unwrap(FileExtension(filename))
    ELSE FileStem(filename) \o " (" \o ToString(n) \o ")"

\* downloads.join(name), for a relative name
Join(dir, name) == dir \o "/" \o name

\* the n-th candidate path
Candidate(dir, filename, n) ==
    IF n = 0 THEN Join(dir, filename) ELSE Join(dir, NewName(filename, n))

\* a variant without the safety limit
LimitNever(n) == FALSE

\* if counter > 1000
LimitReached(n) == n > SafetyLimit

\* path.exists() for the n-th candidate
PathExists(files, n) == n < files.leading \/ n \in files.others

\* get_unique_download_path(filename) up to the loop: the Downloads folder is looked
\* up and the file name is tried as it is
DlCall(filename, downloads, files) ==
    /\ dlPc = "idle"
    /\ dlFilename' = filename
    /\ dlDownloads' = downloads
    /\ dlFiles' = files
    /\ IF downloads = None
       THEN /\ dlResult' = Some(Err(NoDownloadsFolder))
            /\ dlPc' = "done"
            /\ UNCHANGED counter
       ELSE IF ~PathExists(files, 0)
       THEN /\ dlResult' = Some(Ok(Candidate(Unwrap(downloads), filename, 0)))
            /\ dlPc' = "done"
            /\ UNCHANGED counter
       ELSE /\ counter' = 1
            /\ dlPc' = "loop"
            /\ UNCHANGED dlResult
    /\ UNCHANGED <<mgrVars, cmdVars, dispVars, lcVars, permVars, updVars>>

\* one iteration of the loop
DlLoop ==
    /\ dlPc = "loop"
    /\ IF ~PathExists(dlFiles, counter)
       THEN /\ dlResult' = Some(Ok(Candidate(Unwrap(dlDownloads), dlFilename, counter)))
            /\ dlPc' = "done"
            /\ UNCHANGED counter
       ELSE /\ counter' = counter + 1
            /\ IF LimitReached(counter + 1)
               THEN /\ dlResult' = Some(Err(TooManyFiles))
                    /\ dlPc' = "done"
               ELSE UNCHANGED <<dlResult, dlPc>>
    /\ UNCHANGED <<dlFilename, dlDownloads, dlFiles>>
    /\ UNCHANGED <<mgrVars, cmdVars, dispVars, lcVars, permVars, updVars>>

NextDownload ==
    \/ \E filename \in DlFilenames, downloads \in {None} \cup {Some(d) : d \in DownloadDirs},
          files \in DlFolders : DlCall(filename, downloads, files)
    \/ DlLoop

\* the calling thread runs
SpecDownload == Init /\ [][NextDownload]_vars /\ WF_vars(NextDownload)

(***************************************************************************)
(* Properties                                                              *)
(***************************************************************************)
\* a native click event arrives on thread t and handle_click is about to be called
ClickStep(t) == frame[t].pc = "idle" /\ frame'[t].pc = "handle"

\* thread t takes a step of the call it is in
Steps(t) == frame'[t] # frame[t]

WindowOps == {WindowOp("show"), WindowOp("set_focus"), WindowOp("unminimize")}

DeepLinkEvents(log) == {e \in log : e.op = "emit" /\ e.event = "deep-link"}

\* the allow-list as the specification states it: the custom scheme (cushion, or
\* cushion-dev), or https on the app's own domain, apex and subdomains
AllowListed(u) ==
    LET parsed == UrlParse(u)
    IN  /\ parsed.ok
        /\ \/ parsed.scheme \in {"cushion", "cushion-dev"}
           \/ /\ parsed.scheme = "https"
              /\ IsSome(parsed.host)
              /\ \/ Unwrap(parsed.host) = "cushion.so"
                 \/ EndsWith(Unwrap(parsed.host), ".cushion.so")

\* a show_notification(id, .., Some(u)) that has reached the platform render call has
\* recorded a url under id
RecordedBeforeRender ==
    \A a \in AppThreads :
        frame[a].pc = "render" /\ IsSome(frame[a].url)
            => /\ frame[a].id \in DOMAIN metadata
               /\ \/ metadata[frame[a].id] = Unwrap(frame[a].url)
                  \/ [id |-> frame[a].id, url |-> Unwrap(frame[a].url)] \in replaced

C7_UnknownIdResolvesToNone ==
    /\ [](\A t \in OsThreads :
            frame[t].op = "click" /\ frame[t].id \notin DOMAIN metadata => frame[t].url = None)
    /\ [][\A t \in OsThreads :
            /\ frame[t].pc = "handle" /\ frame[t].url = None /\ IsSome(callback) /\ Steps(t)
                 => /\ frame'[t].pc = "callback"
                    /\ frame'[t].ran = callback
                    /\ ClickOf(frame'[t]) = ClickOf(frame[t])
            /\ frame[t].pc = "callback" /\ frame[t].ran = <<"default">> /\ frame[t].url = None
                 /\ frame[t].action.kind \in {"Body", "Button"} /\ Steps(t)
                 => /\ frame'[t] = IdleFrame
                    /\ hostLog' = hostLog \cup WindowOps
                    /\ DeepLinkEvents(hostLog') = DeepLinkEvents(hostLog)]_vars

\* no url was ever recorded, and the default dispatcher has handled a click: the
\* window was brought to the foreground and nothing was emitted
C7_Witness ==
    /\ metadata = << >>
    /\ rendered # {}
    /\ hostLog = WindowOps
    /\ frame["os"] = IdleFrame

\* C8 as stated: on every backend the url of a click handed to handle_click is what
\* the manager's metadata map holds for the id of the click at that time (None when
\* absent), also when the same id was shown more than once with different urls.
C8_ClickUrlFromMetadata ==
    [][\A t \in OsThreads : ClickStep(t) => frame'[t].url = get_metadata(frame'[t].id)]_vars

\* C2: Dismiss never dispatches navigation.  Whatever url the click carries, an
\* allow-listed one included, the default dispatcher emits no "deep-link" event for
\* a click whose action is Dismiss.
C2_DismissNeverNavigates ==
    dState = "returned" /\ dClick.action = Dismiss => DeepLinks(dEffects) = {}

\* the dispatcher has returned from a Dismiss click that carries an allow-listed url
C2_Witness ==
    /\ dState = "returned"
    /\ dClick.action = Dismiss
    /\ dClick.url = Some("https://app.cushion.so/y")

\* C3: allow-list enforcement in the default dispatcher.  Every "deep-link" event the
\* default dispatcher emits carries the url of the click, and that url has the scheme
\* cushion or cushion-dev, or is https on the app's own domain; a click whose url is
\* outside the allow-list ("https://evil.com/y", "javascript:alert(1)") emits no
\* "deep-link" event; a Body or Button click with "cushion://x" or
\* "https://app.cushion.so/y" emits it.
C3_AllowListEnforced ==
    dState = "returned" =>
        /\ \A i \in DeepLinks(dEffects) :
             /\ IsSome(dClick.url)
             /\ dEffects[i].payload = Unwrap(dClick.url)
             /\ AllowListed(dEffects[i].payload)
        /\ IsSome(dClick.url) /\ ~AllowListed(Unwrap(dClick.url)) => DeepLinks(dEffects) = {}
        /\ dClick.url \in {Some("https://evil.com/y"), Some("javascript:alert(1)")}
             => DeepLinks(dEffects) = {}
        /\ dClick.url \in {Some("cushion://x"), Some("https://app.cushion.so/y")}
             /\ dClick.action.kind \in {"Body", "Button"}
             => \E i \in DeepLinks(dEffects) : dEffects[i].payload = Unwrap(dClick.url)

\* the dispatcher has emitted the allow-listed https url of a Body click
C3_Witness ==
    /\ dState = "returned"
    /\ dClick.action = Body
    /\ dClick.url = Some("https://app.cushion.so/y")
    /\ dEffects[1] = Emit("deep-link", "https://app.cushion.so/y")

\* C4 as stated: the on_action handler of the notification plugin emits no "deep-link"
\* event for a notification whose stored url is outside the allow-list.
C4_PluginHandlerEnforcesAllowList ==
    IsSome(onActionLast.url) /\ ~AllowListed(Unwrap(onActionLast.url))
        => DeepLinks(onActionLast.effects) = {}

\* C5 as stated: when the show_notification command returns Ok for the identifier it
\* generated and the url Some(u), the manager's metadata maps that identifier to u.
C5_CommandRoutesThroughManager ==
    [][\A u \in CmdUrls :
          CmdShowNotification(Some(u), TRUE) => get_metadata(NotificationId(now))' = Some(u)]_vars

\* C6 as stated: no thread holds the callback mutex while the registered callback
\* runs in handle_click, and a callback that calls back into the manager completes:
\* no thread is left blocked or unwinding from a panic.
C6_NoLockAcrossCallback ==
    \A t \in Threads :
        /\ frame[t].pc = "callback" => cbLock = NoThread
        /\ frame[t].pc \notin {"deadlocked", "panicked"}

\* C9: single callback, last-write-wins.  The slot holds exactly the callback of the
\* last set_callback that returned, never more than one, and the callback a
\* handle_click runs is that one, once: after set_callback(A) then set_callback(B)
\* a click runs B and not A.
C9_LastWriteWins ==
    /\ callback = lastSet
    /\ Len(callback) <= 1
    /\ \A t \in Threads : frame[t].pc = "callback" => frame[t].ran = lastSet /\ Len(frame[t].ran) = 1

\* set_callback("B") has replaced another callback, and a click is running B
C9_Witness ==
    /\ didReplace
    /\ lastSet = Some("B")
    /\ frame["os"].pc = "callback"
    /\ frame["os"].ran = <<"B">>

\* C10: a handle_click(click) that returns has called the callback of the last
\* set_callback that returned, once, with that click, on its own thread; it returns
\* without a call only when no callback was ever set; it does not return when the
\* callback mutex is poisoned.  This holds while show_notification calls run on
\* another thread.
C10_InstalledCallbackObservesClick ==
    [][\A t \in OsThreads :
          /\ frame[t].pc = "handle" /\ Steps(t) =>
               \/ /\ IsSome(lastSet)
                  /\ frame'[t].pc = "callback"
                  /\ frame'[t].ran = lastSet
                  /\ ClickOf(frame'[t]) = ClickOf(frame[t])
                  /\ cbLock' = t
               \/ /\ lastSet = None
                  /\ frame'[t] = IdleFrame
               \/ /\ cbPoisoned
                  /\ frame'[t].pc = "panicked"
          /\ frame[t].pc = "callback" /\ Steps(t) =>
               /\ cbLock = t
               /\ frame'[t].pc \in {"idle", "deadlocked", "panicked"}]_vars

\* a click is running the callback set before it while a show_notification is between
\* its store and its render
C10_Witness ==
    /\ lastSet = Some("A")
    /\ frame["os"].pc = "callback"
    /\ frame["os"].ran = <<"A">>
    /\ cbLock = "os"
    /\ frame["app"].pc = "render"

\* thread a takes the first step of show_notification(id, .., Some(u)): the store
StoreStep(a) ==
    frame[a].pc = "idle" /\ frame'[a].pc = "render" /\ IsSome(frame'[a].url)

\* C11: concurrent show and click on disjoint ids.  A click on an id that was shown
\* with the url u2 the metadata map holds for it carries Some(u2), also while a
\* show_notification of another id is between its store and its render; the store of
\* show_notification(id1, .., Some(u1)) leaves the map with exactly the earlier
\* entries (none lost or altered) and id1 -> u1; no other step changes the map.
C11_DisjointShowAndClick ==
    [][/\ \A t \in OsThreads : ClickStep(t) =>
             \A shown \in ShownWith(frame'[t].id) :
                 ShownWith(frame'[t].id) = {shown} /\ IsSome(shown)
                 /\ get_metadata(frame'[t].id) = shown
                     => frame'[t].url = shown
       /\ \A a \in AppThreads : StoreStep(a) =>
             /\ DOMAIN metadata' = DOMAIN metadata \cup {frame'[a].id}
             /\ metadata'[frame'[a].id] = Unwrap(frame'[a].url)
             /\ \A k \in DOMAIN metadata \ {frame'[a].id} : metadata'[k] = metadata[k]
       /\ (\A a \in AppThreads : ~StoreStep(a)) => metadata' = metadata]_vars

\* a click on "n2" carries the url stored for it while show_notification("n1", ..) is
\* between its store and its render, and the map holds both entries
C11_Witness ==
    /\ frame["app"].pc = "render" /\ frame["app"].id = "n1" /\ IsSome(frame["app"].url)
    /\ frame["os"].pc = "handle" /\ frame["os"].id = "n2"
    /\ DOMAIN metadata = {"n1", "n2"}
    /\ frame["os"].url = Some(metadata["n2"])
    /\ frame["app"].url = Some(metadata["n1"])

\* C12: before init, access to the manager fails gracefully.  As long as init has not
\* been called, however many get and show calls were made, the singleton is unset and
\* no call changed it: get() has returned None; and on Windows and Linux the backend's
\* show_notification has returned Err("Notification manager not initialized") without
\* a native show call, and nothing is rendered.
C12_GracefulBeforeInit ==
    managers = 0 =>
        /\ managerCell = None /\ macManager = None /\ ~delegateClass
        /\ lcLast.op = "get" => lcLast.result = "returned" /\ lcLast.manager = None
        /\ platform \in {"windows", "linux"} =>
             /\ rendered = {} /\ toastManager = {}
             /\ lcLast.op = "show" => lcLast.result = NotInitialized /\ lcLast.native = 0

\* on Linux, before init, show_notification has been called and has returned the error
C12_Witness ==
    /\ managers = 0
    /\ platform = "linux"
    /\ lcLast.op = "show"
    /\ lcLast.result = NotInitialized
    /\ rendered = {}

\* C13 as stated: single process-wide manager.  After init, also after more than one
\* call of init, the manager whose handle_click a native click reaches is the
\* instance get() returns, and get() returns the same instance on every call.
C13_SingleManager ==
    /\ lcLast.op = "click" => IsSome(managerCell) /\ lcLast.manager = managerCell
    /\ lcLast.op = "get" /\ managers > 0 => lcLast.manager = Some(1)

\* C14 as stated: when the native render call reports a failure, show_notification
\* returns Err to its caller on every backend, after one attempt.
C14_RenderFailureIsReturned ==
    lcLast.op = "show" /\ lcLast.failed => lcLast.result # "Ok" /\ lcLast.native = 1

\* C15 as stated: a panic raised inside the registered callback is contained by the
\* click handling: no thread unwinds out of the native click callback, and the
\* callback mutex is not poisoned, so that later handle_click and set_callback calls
\* do not panic.
C15_CallbackPanicContained ==
    /\ ~cbPoisoned
    /\ \A t \in Threads : frame[t].pc # "panicked"

\* C16 as stated: the identifiers the show_notification command generates are fresh.
\* The identifier of an invocation is not the identifier of a notification an earlier
\* invocation has shown or recorded a url for, also within one clock millisecond,
\* and the invocation replaces no recorded id -> url entry of a shown notification.
C16_FreshIdentifiers ==
    [][\A url \in {None} \cup {Some(u) : u \in CmdUrls}, ok \in BOOLEAN :
          CmdShowNotification(url, ok) =>
              /\ NotificationId(now) \notin delivered \cup DOMAIN NOTIFICATION_URLS
              /\ \A i \in delivered \cap DOMAIN NOTIFICATION_URLS :
                     i \in DOMAIN NOTIFICATION_URLS' /\ NOTIFICATION_URLS'[i] = NOTIFICATION_URLS[i]]_vars

\* C17 as stated: metadata is written once and never mutated.  Once id -> u is
\* recorded, no step of the manager, another show_notification with the same id and a
\* different url included, changes the url recorded under id.
C17_WrittenOnce ==
    [][\A id \in DOMAIN metadata :
          id \in DOMAIN metadata' /\ metadata'[id] = metadata[id]]_vars

\* C17: once id -> u is recorded, the entry stays, and the url recorded under id
\* changes only in the store of a later show_notification(id, .., Some(v)) with the
\* same id, which records v; handle_click, set_callback, get_metadata, the render and
\* a show_notification of another id or without a url leave it as it is.
C17_MutatedOnlyByShowOfSameId ==
    [][\A id \in DOMAIN metadata :
          /\ id \in DOMAIN metadata'
          /\ metadata'[id] # metadata[id] =>
                \E a \in AppThreads :
                    /\ StoreStep(a)
                    /\ frame'[a].id = id
                    /\ frame'[a].url = Some(metadata'[id])]_vars

\* a show_notification with the same id has replaced a recorded url, and a click is
\* being handled with a callback set
C17_Witness ==
    /\ \E r \in replaced : r.id \in DOMAIN metadata /\ metadata[r.id] # r.url
    /\ frame["os"].pc = "callback"
    /\ IsSome(lastSet)

\* C18: metadata stays resolvable and is never evicted.  No step of the manager,
\* handle_click and the callback included, removes a key of the metadata map: the keys
\* only grow, and every notification shown with a url has an entry in every later
\* state; a click on an id with an entry, the first as any later one, carries a url:
\* on macOS the recorded one, on Windows the one its toast was shown with.
C18_NeverEvicted ==
    /\ [](\A n \in rendered : IsSome(n.url) => IsSome(get_metadata(n.id)))
    /\ [][DOMAIN metadata \subseteq DOMAIN metadata']_vars
    /\ [][\A t \in OsThreads : ClickStep(t) =>
            /\ platform = "macos" /\ frame'[t].id \in DOMAIN metadata
                 => frame'[t].url = Some(metadata[frame'[t].id])
            /\ platform = "windows" => frame'[t].url \in ShownWith(frame'[t].id)]_vars

\* the only id with an entry was clicked and dispatched (its deep link was emitted),
\* and a second click on it carries the url again
C18_Witness ==
    /\ DOMAIN metadata = {"n1"}
    /\ metadata["n1"] = "cushion://x"
    /\ replaced = {}
    /\ Emit("deep-link", "cushion://x") \in hostLog
    /\ frame["os"].pc = "handle"
    /\ frame["os"].id = "n1"
    /\ frame["os"].url = Some("cushion://x")

\* C19 as stated: the allow-list predicate accepts exactly the urls with scheme
\* cushion or cushion-dev and the https urls whose host is cushion.so or a subdomain
\* of it: the default dispatcher, given a Body or Button click with a url, emits the
\* deep link if and only if the url is one of these.
C19_AllowListExact ==
    dState = "returned" /\ dClick.action.kind \in {"Body", "Button"} /\ IsSome(dClick.url)
        => (DeepLinks(dEffects) # {} <=> AllowListed(Unwrap(dClick.url)))

\* C20: on acceptance, emit, then bring the window forward.  When the default
\* dispatcher returns from a Body or Button click whose url it accepts, it has emitted
\* exactly one "deep-link" event, carrying that url, and after it has issued show,
\* set_focus and unminimize on the main window.
C20_EmitThenFocus ==
    dState = "returned" /\ dClick.action.kind \in {"Body", "Button"}
    /\ IsSome(dClick.url) /\ is_valid_notification_url(Unwrap(dClick.url))
        => /\ Cardinality(DeepLinks(dEffects)) = 1
           /\ \A i \in DeepLinks(dEffects) :
                /\ dEffects[i].payload = Unwrap(dClick.url)
                /\ \A w \in WindowOps : \E j \in (i + 1)..Len(dEffects) : dEffects[j] = w
                /\ \A j \in 1..(i - 1) : dEffects[j] \notin WindowOps

\* the dispatcher has returned from a Button click with an accepted url: the event,
\* then the three window operations
C20_Witness ==
    /\ dState = "returned"
    /\ dClick.action = Button("reply")
    /\ dClick.url = Some("cushion-dev://team/post/1")
    /\ Len(dEffects) = 4
    /\ dEffects[1] = Emit("deep-link", "cushion-dev://team/post/1")
    /\ {dEffects[j] : j \in 2..4} = WindowOps

\* C21: handle_click with no callback registered returns normally and changes
\* nothing: the metadata map, the empty callback slot and the GUI host are as before,
\* the callback mutex is free and not poisoned.
C21_NoCallbackIsSwallowed ==
    [][\A t \in OsThreads :
          frame[t].pc = "handle" /\ callback = None /\ Steps(t) =>
              /\ frame'[t] = IdleFrame
              /\ metadata' = metadata
              /\ callback' = None
              /\ hostLog' = hostLog
              /\ cbLock' = NoThread /\ ~cbPoisoned']_vars

\* handle_click is called for a click on a recorded id while no callback was ever set
C21_Witness ==
    /\ callback = None /\ lastSet = None
    /\ frame["os"].pc = "handle"
    /\ frame["os"].id \in DOMAIN metadata
    /\ IsSome(frame["os"].url)

\* the native click handlers registered with the OS: on macOS the one notification
\* center delegate, on Windows one on_activated closure per shown toast, on Linux none
NativeClickHandlers ==
    CASE platform = "macos"   -> IF delegateClass THEN 1 ELSE 0
      [] platform = "windows" -> Cardinality(toastManager)
      [] OTHER                -> 0

\* C22 as stated: at most one native click handler is registered in the process at
\* any time, on every backend, however many notifications were shown.
C22_AtMostOneNativeHandler == NativeClickHandlers <= 1

\* C23: native action identifiers are mapped three ways.  When the macOS delegate
\* receives a response, the default-action identifier gives Body, the dismiss-action
\* identifier gives Dismiss, and any other identifier x gives Button(x) with x
\* unchanged; when a Windows toast is activated, no argument gives Body and an
\* argument x gives Button(x).  A dismissal is never handed on as Body or Button.
C23_ThreeWayActionMapping ==
    [][\A t \in OsThreads :
          /\ \A id \in Ids, aid \in MacActionIdentifiers :
                NativeClickMac(t, id, aid) =>
                    /\ aid = MacDefaultAction => frame'[t].action = Body
                    /\ aid = MacDismissAction => frame'[t].action = Dismiss
                    /\ aid \notin {MacDefaultAction, MacDismissAction} =>
                          frame'[t].action = [kind |-> "Button", name |-> aid]
          /\ \A n \in rendered, btn \in {None, Some("reply")} :
                ToastActivated(t, n, btn) =>
                    /\ btn = None => frame'[t].action = Body
                    /\ IsSome(btn) =>
                          frame'[t].action = [kind |-> "Button", name |-> btn[1]]]_vars

\* the macOS delegate has received a dismiss response and is handing a click with
\* action Dismiss to handle_click
C23_Witness ==
    /\ platform = "macos"
    /\ frame["os"].pc = "handle"
    /\ frame["os"].action.kind = "Dismiss"

\* what request_notification_permission has to return, given what its waits received
PermExpected ==
    IF platform # "macos" THEN Ok("granted")
    ELSE IF IsSome(permGot)
    THEN IF IsSome(permGot[1].error) THEN Err(permGot[1].error[1])
         ELSE IF permGot[1].granted THEN Ok("granted") ELSE Ok("denied")
    ELSE IF IsSome(permStatusGot)
    THEN IF permStatusGot[1] = UN_AUTHORIZATION_STATUS_AUTHORIZED
         THEN Ok("granted") ELSE Ok("denied")
    ELSE Err(SettingsFailure)

\* C24: request_notification_permission never blocks forever.  The wait for the
\* request's completion handler lasts at most 30 seconds and the wait for the settings
\* query at most 5; every call returns; a completion delivered within the first wait
\* decides the result (granted, denied, or Err with the OS error); if none is
\* delivered the settings query decides it, granted only for the authorized status
\* and denied for every other; if that is not answered either the result is Err.
C24_PermissionRequestIsBounded ==
    /\ [](/\ permPc = "waitRequest" => permWaited <= RequestTimeoutSecs
          /\ permPc = "waitStatus" => permWaited <= StatusTimeoutSecs /\ permGot = None
          /\ permPc = "done" => permResult = Some(PermExpected)
          /\ permPc # "done" => permResult = None)
    /\ (permPc # "idle") ~> (permPc = "done")

\* the request's completion handler never fired, the settings query answered
\* authorized, and the call returned granted
C24_Witness ==
    /\ platform = "macos"
    /\ permPc = "done"
    /\ permGot = None
    /\ permStatusGot = Some(UN_AUTHORIZATION_STATUS_AUTHORIZED)
    /\ permResult = Some(Ok("granted"))

\* C25: check_notification_permission never returns an error.  Every call has
\* returned Ok("granted") or Ok("denied"): granted when the test notification was
\* shown, denied when showing it failed.
C25_CheckNeverFails ==
    checkLast.called =>
        /\ checkLast.result.ok
        /\ checkLast.result.value \in {"granted", "denied"}
        /\ checkLast.failed <=> checkLast.result.value = "denied"

\* a permission check whose test notification could not be shown has returned
\* Ok("denied")
C25_Witness ==
    /\ checkLast.called
    /\ checkLast.failed
    /\ checkLast.result = Ok("denied")

\* a Focused(true) event takes the pending slot
FocusTakeStep == focus.pc = "idle" /\ focus'.pc = "took"

\* a Focused(true) event ends, with or without the update dialog
FocusEndStep == focus.pc = "took" /\ focus'.pc = "idle"

\* C26: the pending-update hand-off.  A Focused(true) event triggers the update dialog
\* exactly when a version is pending at the moment it takes the slot, and leaves the
\* slot empty; the dialogs triggered, the pending version and the version a running
\* focus event holds never outnumber the versions stored, so a stored version triggers
\* at most one dialog; a focus event finds a version only if one was stored since the
\* previous focus event; and a version stored while a focus event runs stays pending
\* until the next focus event takes it: only a focus event empties the slot.
C26_PendingUpdateHandOff ==
    /\ [][/\ FocusTakeStep =>
                /\ focus'.pending = pendingUpdate
                /\ pendingUpdate' = None
                /\ IsSome(pendingUpdate) => stores > lastFocus.stores
          /\ FocusEndStep =>
                /\ dialogs' = dialogs + (IF lastFocus.had THEN 1 ELSE 0)
                /\ lastFocus.had = IsSome(focus.pending)
                /\ pendingUpdate' = pendingUpdate
          /\ pendingUpdate' # pendingUpdate /\ ~FocusTakeStep =>
                /\ stores' = stores + 1
                /\ pendingUpdate' = Some(checker.version)]_vars
    /\ [](/\ dialogs + (IF IsSome(pendingUpdate) THEN 1 ELSE 0)
                     + (IF IsSome(focus.pending) THEN 1 ELSE 0) <= stores
          /\ IsSome(pendingUpdate) <=> stores > lastFocus.stores)

\* one version was stored, the first focus event showed the dialog and a second focus
\* event has ended without one
C26_Witness ==
    /\ stores = 1
    /\ dialogs = 1
    /\ focusEvents = 2
    /\ focus.pc = "idle"
    /\ ~lastFocus.dialog

\* C27: the plugin's click handler removes the stored id -> url entry when it handles
\* the click.  A run of the handler for an id with a stored entry emits one deep-link
\* event and leaves no entry under that id; a run for an id without an entry, so also
\* a second click on the same id, emits nothing and does not show or focus the window;
\* the entries of other ids stay.
C27_EntryConsumedByClick ==
    [][\A id \in delivered :
          OnAction(id) =>
              /\ id \notin DOMAIN NOTIFICATION_URLS'
              /\ \A k \in DOMAIN NOTIFICATION_URLS \ {id} :
                    k \in DOMAIN NOTIFICATION_URLS'
                    /\ NOTIFICATION_URLS'[k] = NOTIFICATION_URLS[k]
              /\ IF id \in DOMAIN NOTIFICATION_URLS
                 THEN Cardinality(DeepLinks(onActionLast'.effects)) = 1
                 ELSE onActionLast'.effects = <<>>]_vars

\* a second click on a notification whose first click found its url: the handler has
\* found no url and has done nothing
C27_Witness ==
    /\ onActionLast.again
    /\ onActionLast.url = None
    /\ onActionLast.effects = <<>>
    /\ onActionLast.id \notin DOMAIN NOTIFICATION_URLS

\* C28 as stated: when the platform render call fails, the manager's
\* show_notification(id, .., Some(u)) has returned Err and has not rolled the metadata
\* write back: get_metadata(id) = Some(u) after the failed call.
C28_FailedShowKeepsMetadata ==
    lcLast.op = "managerShow" /\ lcLast.failed /\ IsSome(lcLast.url) =>
        /\ lcLast.result # "Ok"
        /\ get_metadata(lcLast.id) = lcLast.url

\* C29 as stated: show_notification with url = None leaves the metadata map and the
\* callback slot exactly as they were, and a url stored before under the same id stays
\* and is what a later click on that id is delivered with: the click of a notification
\* that was shown without a url while the map held u under its id carries Some(u), as
\* long as the map still holds u.
C29_ShowWithoutUrlKeepsEntry ==
    /\ [][\A id \in Ids, ok \in BOOLEAN :
             LcManagerShow(id, None, ok) => metadata' = metadata /\ callback' = callback]_vars
    /\ [](lcLast.op = "click" /\ IsSome(lcLast.toast) =>
             LET tm == lcLast.toast[1]
             IN  tm.url = None /\ IsSome(tm.stored) /\ get_metadata(tm.id) = tm.stored
                     => lcLast.url = tm.stored)

\* the candidates that do not exist, among the file name and the numbered names
FreeCandidates == {n \in 0..SafetyLimit : ~PathExists(dlFiles, n)}

FirstFree == CHOOSE n \in FreeCandidates : \A m \in FreeCandidates : n <= m

\* C30: get_unique_download_path always terminates, and with a Downloads folder it
\* returns the first candidate that does not exist when it is checked, in the order
\* filename, "stem (1).ext", .., "stem (1000).ext", and returns
\* Err("Too many files with same name") exactly when the file name and all 1000
\* numbered candidates exist.  The counter stays within 1..1000 in the loop.
C30_FirstFreeCandidate ==
    /\ [](/\ dlPc = "loop" => counter \in 1..SafetyLimit /\ dlResult = None
          /\ dlPc = "done" /\ IsSome(dlDownloads) =>
                IF FreeCandidates = {}
                THEN dlResult = Some(Err(TooManyFiles))
                ELSE /\ dlResult = Some(Ok(Candidate(dlDownloads[1], dlFilename, FirstFree)))
                     /\ ~PathExists(dlFiles, FirstFree))
    /\ (dlPc # "idle") ~> (dlPc = "done")

\* the file name and all 1000 numbered candidates exist and the call has returned the
\* error
C30_Witness ==
    /\ dlPc = "done"
    /\ IsSome(dlDownloads)
    /\ \A n \in 0..SafetyLimit : PathExists(dlFiles, n)
    /\ dlResult = Some(Err(TooManyFiles))

====
